---- MODULE Spec2Model ----
(***************************************************************************)
(* Model of torneio_app.py: the registration intake pipeline of the        *)
(* tournament application (Flask handlers over a single SQLite table).     *)
(*                                                                         *)
(* Texts are sequences of one-character strings, so that strip(),          *)
(* only_digits(), format_rg() and format_phone() are computed character by *)
(* character.  JSON values of the request body are records [k, n, v]:      *)
(*   k = "null"                 JSON null or a missing key (dict.get)      *)
(*   k = "int",   n = value     JSON integer                               *)
(*   k = "float", n = tenths    JSON number with one decimal (n / 10)      *)
(*   k = "str",   v = text      JSON string                                *)
(* The storage is assumed available: the only storage exceptions modelled  *)
(* are the ones the schema itself raises (UNIQUE on rg, duplicate column   *)
(* in ALTER TABLE).                                                        *)
(***************************************************************************)
EXTENDS Integers, Sequences, FiniteSets, TLC

\* ------------------------------------------------------------------------
\* Bounds of the model
\* ------------------------------------------------------------------------
NProcs == 2
MaxReqs == 3

\* ------------------------------------------------------------------------
\* JSON values and texts
\* ------------------------------------------------------------------------
Digit == {"0", "1", "2", "3", "4", "5", "6", "7", "8", "9"}
Space == {" "}

JNull == [k |-> "null", n |-> 0, v |-> <<>>]
JInt(i) == [k |-> "int", n |-> i, v |-> <<>>]
JFloat(t) == [k |-> "float", n |-> t, v |-> <<>>]
JStr(s) == [k |-> "str", n |-> 0, v |-> s]

\* Python truthiness of a JSON value (the left operand of `x or ""`).
Truthy(x) ==
  CASE x.k = "null" -> FALSE
    [] x.k = "str" -> x.v # <<>>
    [] OTHER -> x.n # 0

\* str.strip(): drops leading and trailing whitespace.
RECURSIVE LStrip(_)
LStrip(s) ==
  IF s # <<>> /\ Head(s) \in Space THEN LStrip(Tail(s)) ELSE s

RECURSIVE RStrip(_)
RStrip(s) ==
  IF s # <<>> /\ s[Len(s)] \in Space THEN RStrip(SubSeq(s, 1, Len(s) - 1)) ELSE s

Strip(s) == RStrip(LStrip(s))

\* (dados.get(key) or "").strip() raises AttributeError when the value is a
\* truthy non-string.
StripRaises(x) == Truthy(x) /\ x.k # "str"

\* (dados.get(key) or "").strip() when it does not raise.
OrEmptyStrip(x) == IF Truthy(x) THEN Strip(x.v) ELSE <<>>

IsDigit(c) == c \in Digit

\* only_digits: re.sub(r"\D", "", (s or ""))
only_digits(s) == SelectSeq(s, IsDigit)

\* format_rg
format_rg(rg) ==
  LET d == only_digits(rg) IN
  IF Len(d) = 9
    THEN SubSeq(d, 1, 2) \o <<".">> \o SubSeq(d, 3, 5) \o <<".">>
         \o SubSeq(d, 6, 8) \o <<"-">> \o SubSeq(d, 9, 9)
    ELSE d

\* format_phone
format_phone(phone) ==
  LET d == only_digits(phone) IN
  IF Len(d) = 10
    THEN <<"(">> \o SubSeq(d, 1, 2) \o <<")", " ">> \o SubSeq(d, 3, 6)
         \o <<"-">> \o SubSeq(d, 7, 10)
    ELSE IF Len(d) = 11
      THEN <<"(">> \o SubSeq(d, 1, 2) \o <<")", " ">> \o SubSeq(d, 3, 7)
           \o <<"-">> \o SubSeq(d, 8, 11)
      ELSE d

\* validar_rg
validar_rg(rg) ==
  LET d == only_digits(rg) IN 7 <= Len(d) /\ Len(d) <= 12

\* validar_telefone
validar_telefone(telefone) ==
  LET d == only_digits(telefone) IN Len(d) \in {10, 11}

\* ------------------------------------------------------------------------
\* int(idade)
\* ------------------------------------------------------------------------
DigitVal(c) ==
  CASE c = "0" -> 0 [] c = "1" -> 1 [] c = "2" -> 2 [] c = "3" -> 3
    [] c = "4" -> 4 [] c = "5" -> 5 [] c = "6" -> 6 [] c = "7" -> 7
    [] c = "8" -> 8 [] c = "9" -> 9

\* The digits-and-underscores body of an integer literal: non-empty, starts
\* and ends with a digit, underscores only singly between digits.
IntBodyOk(s) ==
  /\ s # <<>>
  /\ \A i \in 1..Len(s) : s[i] \in Digit \cup {"_"}
  /\ s[1] \in Digit /\ s[Len(s)] \in Digit
  /\ \A i \in 1..(Len(s) - 1) : ~(s[i] = "_" /\ s[i + 1] = "_")

RECURSIVE DigitsVal(_)
DigitsVal(d) ==
  IF d = <<>> THEN 0
  ELSE 10 * DigitsVal(SubSeq(d, 1, Len(d) - 1)) + DigitVal(d[Len(d)])

HasSign(s) == s # <<>> /\ Head(s) \in {"+", "-"}
Unsigned(s) == IF HasSign(s) THEN Tail(s) ELSE s

\* int(idade) raises (TypeError for None, ValueError for a text that is not
\* an integer literal).
IntRaises(x) ==
  CASE x.k = "null" -> TRUE
    [] x.k = "str" -> ~IntBodyOk(Unsigned(Strip(x.v)))
    [] OTHER -> FALSE

\* int(idade) when it does not raise; a float is truncated toward zero.
IntOf(x) ==
  CASE x.k = "int" -> x.n
    [] x.k = "float" -> IF x.n >= 0 THEN x.n \div 10 ELSE 0 - ((0 - x.n) \div 10)
    [] x.k = "str" ->
         LET s == Strip(x.v)
             m == DigitsVal(only_digits(Unsigned(s)))
         IN IF s # <<>> /\ Head(s) = "-" THEN 0 - m ELSE m
    [] OTHER -> 0

\* validar_idade: the bare except turns every exception into False.
validar_idade(idade) ==
  IF IntRaises(idade) THEN FALSE
  ELSE 5 <= IntOf(idade) /\ IntOf(idade) <= 100

\* ------------------------------------------------------------------------
\* inscrever: reading and validating the request body
\* ------------------------------------------------------------------------
\* The error texts of the JSON responses (accents dropped).
ErrNome == "Nome completo e obrigatorio"
ErrIdade == "Idade invalida"
ErrTelefone == "Telefone invalido (use 10 ou 11 digitos)"
ErrRg == "RG invalido"
ErrNomeResp == "Nome do responsavel e obrigatorio"
ErrRgResp == "RG do responsavel invalido"
ErrDuplicado == "RG ja cadastrado"
ErrInterno == "Erro interno no servidor"

\* The values bound to the INSERT's placeholders; NoRec before validation
\* has passed.
NoRec ==
  [nome_completo |-> <<>>, idade |-> 0, telefone |-> <<>>, rg |-> <<>>,
   rg_digits |-> <<>>, eh_menor |-> 2, nome_responsavel |-> JNull,
   rg_responsavel |-> JNull]

\* Lines 232-245: guardian columns are bound to None unless eh_menor = 1.
NovoRegistro_leak(nome, idade_int, telefone_fmt, rg_fmt, rg_digits, eh_menor, nome_resp, rg_resp_fmt) ==
  [nome_completo |-> nome, idade |-> idade_int, telefone |-> telefone_fmt,
   rg |-> rg_fmt, rg_digits |-> rg_digits, eh_menor |-> eh_menor,
   nome_responsavel |-> JStr(nome_resp),
   rg_responsavel |-> JStr(rg_resp_fmt)]

NovoRegistro(nome, idade_int, telefone_fmt, rg_fmt, rg_digits, eh_menor, nome_resp, rg_resp_fmt) ==
  [nome_completo |-> nome, idade |-> idade_int, telefone |-> telefone_fmt,
   rg |-> rg_fmt, rg_digits |-> rg_digits, eh_menor |-> eh_menor,
   nome_responsavel |-> IF eh_menor = 1 THEN JStr(nome_resp) ELSE JNull,
   rg_responsavel |-> IF eh_menor = 1 THEN JStr(rg_resp_fmt) ELSE JNull]

Rejeitado(erro) == [status |-> 400, erro |-> erro, rec |-> NoRec]
Excecao == [status |-> 500, erro |-> ErrInterno, rec |-> NoRec]
Aceito(rec) == [status |-> 0, erro |-> "", rec |-> rec]

\* Lines 182-219 of inscrever.  dados.obj is FALSE for a body that parses to
\* a truthy non-object (dados.get raises AttributeError).
Validar(dados) ==
  IF ~dados.obj THEN Excecao
  ELSE IF StripRaises(dados.nome_completo) THEN Excecao
  ELSE IF StripRaises(dados.telefone) THEN Excecao
  ELSE IF StripRaises(dados.rg) THEN Excecao
  ELSE
    LET nome == OrEmptyStrip(dados.nome_completo)
        idade == dados.idade
        telefone == OrEmptyStrip(dados.telefone)
        rg == OrEmptyStrip(dados.rg)
    IN
    IF nome = <<>> THEN Rejeitado(ErrNome)
    ELSE IF ~validar_idade(idade) THEN Rejeitado(ErrIdade)
    ELSE IF ~validar_telefone(telefone) THEN Rejeitado(ErrTelefone)
    ELSE IF ~validar_rg(rg) THEN Rejeitado(ErrRg)
    ELSE
      LET idade_int == IntOf(idade)
          eh_menor == IF idade_int < 18 THEN 1 ELSE 0
          telefone_fmt == format_phone(telefone)
          rg_fmt == format_rg(rg)
          rg_digits == only_digits(rg)
      IN
      IF StripRaises(dados.nome_responsavel) THEN Excecao
      ELSE IF StripRaises(dados.rg_responsavel) THEN Excecao
      ELSE
        LET nome_resp == OrEmptyStrip(dados.nome_responsavel)
            rg_resp == OrEmptyStrip(dados.rg_responsavel)
            rg_resp_fmt == IF rg_resp # <<>> THEN format_rg(rg_resp) ELSE <<>>
        IN
        IF eh_menor = 1 /\ nome_resp = <<>> THEN Rejeitado(ErrNomeResp)
        ELSE IF eh_menor = 1 /\ ~validar_rg(rg_resp) THEN Rejeitado(ErrRgResp)
        ELSE Aceito(NovoRegistro(nome, idade_int, telefone_fmt, rg_fmt,
                                 rg_digits, eh_menor, nome_resp, rg_resp_fmt))

\* ------------------------------------------------------------------------
\* Request bodies
\* ------------------------------------------------------------------------
Body(nome, idade, telefone, rg, nome_resp, rg_resp) ==
  [obj |-> TRUE, nome_completo |-> nome, idade |-> idade, telefone |-> telefone,
   rg |-> rg, nome_responsavel |-> nome_resp, rg_responsavel |-> rg_resp]

\* A body that is valid JSON but not an object, e.g. [1].
NotObject == [Body(JNull, JNull, JNull, JNull, JNull, JNull) EXCEPT !.obj = FALSE]
\* No request has been read yet.
NoDados == [Body(JNull, JNull, JNull, JNull, JNull, JNull) EXCEPT !.idade = JInt(0 - 999)]

TAna == <<"A", "n", "a">>
TBia == <<"B", "i", "a">>
TFone10 == <<"1", "1", "3", "3", "3", "3", "4", "4", "4", "4">>
TFone11 == <<"(", "1", "1", ")", " ", "9", "8", "7", "6", "5", "-", "4", "3", "2", "1">>
TFone9 == <<"1", "1", "3", "3", "3", "3", "4", "4", "4">>
TRg9 == <<"1", "2", "3", "4", "5", "6", "7", "8", "9">>
TRg9Dots == <<"1", "2", "3", ".", "4", "5", "6", ".", "7", "8", "9">>
TRg7 == <<"7", "6", "5", "4", "3", "2", "1">>
TRg8 == <<" ", "8", "8", ".", "7", "7", "6", "6", "5", "5">>
TRg6 == <<"1", "2", "3", "4", "5", "6">>
TRg13 == <<"1", "2", "3", "4", "5", "6", "7", "8", "9", "0", "1", "2", "3">>

Nomes == {JNull, JStr(<<>>), JStr(<<" ">>), JStr(TAna), JStr(<<" ">> \o TAna), JInt(123)}
Idades ==
  {JNull, JInt(0 - 1), JInt(4), JInt(5), JInt(17), JInt(18), JInt(100), JInt(101),
   JFloat(49), JFloat(59), JFloat(175), JFloat(1005), JFloat(1010),
   JStr(<<"1", "7">>), JStr(<<" ", "2", "5", " ">>), JStr(<<"1", "_", "7">>),
   JStr(<<"1", "7", ".", "5">>), JStr(<<"a", "b", "c">>), JStr(<<>>),
   JStr(<<"-", "5">>), JStr(<<"1", "0", "1">>)}
Telefones == {JNull, JStr(TFone10), JStr(TFone11), JStr(TFone9), JInt(1133334444)}
Rgs == {JNull, JStr(TRg9), JStr(TRg9Dots), JStr(TRg7), JStr(TRg6), JStr(TRg13), JInt(1234567)}
NomesResp == {JNull, JStr(<<" ">>), JStr(TBia), JInt(1)}
RgsResp == {JNull, JStr(TRg8), JStr(TRg6), JInt(7654321)}

\* The request bodies of the validation specification.
AllRequests ==
  {NotObject} \cup
  {Body(n, i, t, r, nr, rr) :
     n \in Nomes, i \in Idades, t \in Telefones, r \in Rgs,
     nr \in NomesResp, rr \in RgsResp}

\* The request bodies of the concurrent specification.
Requests ==
  {Body(JStr(TAna), JInt(25), JStr(TFone10), JStr(TRg9), JNull, JNull),
   Body(JStr(TAna), JInt(18), JStr(TFone11), JStr(TRg9Dots), JStr(TBia), JStr(TRg8)),
   Body(JStr(TBia), JInt(17), JStr(TFone11), JStr(TRg7), JStr(TAna), JStr(TRg8)),
   Body(JStr(TAna), JInt(100), JStr(TFone10), JStr(TRg8), JNull, JNull),
   Body(JStr(TBia), JInt(17), JStr(TFone10), JStr(TRg7), JNull, JStr(TRg8)),
   Body(JInt(123), JInt(25), JStr(TFone10), JStr(TRg9), JNull, JNull)}

\* ------------------------------------------------------------------------
\* State
\* ------------------------------------------------------------------------
VARIABLES
  schema,   \* "absent": no table; "legacy": table without the telefone column; "current"
  rows,     \* the rows of inscricoes, in insertion order
  seq,      \* sqlite_sequence of inscricoes (AUTOINCREMENT)
  clock,    \* the value of datetime('now'), in seconds
  pc,       \* position of each worker thread in its handler
  route,    \* the handler each worker thread is running
  dados,    \* inscrever: the request body
  loc,      \* the handler's local variables
  conns,    \* connections the running request has opened and not closed
  feito,    \* the request completed last: its route, body, locals, open
            \* connections and response
  reqs      \* number of requests received so far

vars == <<schema, rows, seq, clock, pc, route, dados, loc, conns, feito, reqs>>

Procs == 1..NProcs
Routes == {"index", "inscrever", "listar_inscritos", "estatisticas", "exportar_excel"}

NoLoc == [rec |-> NoRec, new_id |-> 0, total |-> 0 - 1]
NoStats == [total_inscritos |-> 0 - 1, menores_de_18 |-> 0 - 1, maiores_de_18 |-> 0 - 1]
NoResp ==
  [status |-> 0, tipo |-> "", erro |-> "", registro |-> <<>>, download_name |-> 0,
   lista |-> <<>>, stats |-> NoStats]

RespErro(status, erro) == [NoResp EXCEPT !.status = status, !.tipo = "json_erro", !.erro = erro]

\* ------------------------------------------------------------------------
\* The table
\* ------------------------------------------------------------------------
Range(f) == {f[i] : i \in DOMAIN f}

\* Line 46: rg TEXT NOT NULL UNIQUE compares the stored texts.
UniqueRgViolated_off(tabela, rg) == FALSE

UniqueRgViolated(tabela, rg) == \E i \in DOMAIN tabela : tabela[i].rg = rg

\* Lines 226-228: the scan that compares the digits of every stored rg.
JaCadastrado(existing, rg_digits) ==
  \E i \in DOMAIN existing : only_digits(existing[i].rg) = rg_digits

\* Lines 232-245 with the column defaults of lines 42, 50, 51.
Linha(rec, id, agora) ==
  [id |-> id, nome_completo |-> rec.nome_completo, idade |-> rec.idade,
   telefone |-> JStr(rec.telefone), rg |-> rec.rg, eh_menor |-> rec.eh_menor,
   nome_responsavel |-> rec.nome_responsavel,
   rg_responsavel |-> rec.rg_responsavel,
   data_inscricao |-> agora, status |-> "pendente"]

\* Lines 40-53: CREATE TABLE IF NOT EXISTS keeps an existing table.
CriarTabela_recreate(esquema, tabela) == <<"current", <<>>>>

CriarTabela(esquema, tabela) ==
  IF esquema = "absent" THEN <<"current", <<>>>> ELSE <<esquema, tabela>>

\* Line 60: UPDATE inscricoes SET telefone = COALESCE(telefone, '')
MigrarTelefone(tabela) ==
  [i \in DOMAIN tabela |->
     [tabela[i] EXCEPT !.telefone = IF @ = JNull THEN JStr(<<>>) ELSE @]]

\* ORDER BY datetime(data_inscricao) DESC, id DESC
Antes(a, b) ==
  \/ a.data_inscricao > b.data_inscricao
  \/ a.data_inscricao = b.data_inscricao /\ a.id > b.id

Antes_asc(a, b) ==
  \/ a.data_inscricao > b.data_inscricao
  \/ a.data_inscricao = b.data_inscricao /\ a.id < b.id

\* Lines 278-282: the SELECT of listar_inscritos.
SelectInscritos_tie(tabela) ==
  [k \in 1..Len(tabela) |->
     CHOOSE r \in Range(tabela) :
       Cardinality({q \in Range(tabela) : Antes_asc(q, r)}) = k - 1]

SelectInscritos(tabela) ==
  [k \in 1..Len(tabela) |->
     CHOOSE r \in Range(tabela) :
       Cardinality({q \in Range(tabela) : Antes(q, r)}) = k - 1]

\* Lines 322-336: the SELECT of exportar_excel.
LinhaExcel(r) ==
  [ID |-> r.id, NomeCompleto |-> r.nome_completo, Idade |-> r.idade,
   Telefone |-> r.telefone, RG |-> r.rg,
   MenorDeIdade |-> IF r.eh_menor = 1 THEN "Sim" ELSE "Nao",
   NomeDoResponsavel |-> IF r.nome_responsavel = JNull THEN JStr(<<>>) ELSE r.nome_responsavel,
   RGDoResponsavel |-> IF r.rg_responsavel = JNull THEN JStr(<<>>) ELSE r.rg_responsavel,
   DataDeInscricao |-> r.data_inscricao, Status |-> r.status]

SelectExcel(tabela) ==
  [k \in 1..Len(tabela) |->
     LinhaExcel(CHOOSE r \in Range(tabela) :
                  Cardinality({q \in Range(tabela) : Antes(q, r)}) = k - 1)]

\* Lines 299-300: the two COUNT(*) queries.
CountTotal(tabela) == Len(tabela)
CountMenores(tabela) == Cardinality({i \in DOMAIN tabela : tabela[i].eh_menor = 1})

\* ------------------------------------------------------------------------
\* Initial states
\* ------------------------------------------------------------------------
NoFeito == [route |-> "", dados |-> NoDados, loc |-> NoLoc, conns |-> 0, resp |-> NoResp]

\* The database file is missing, or holds an empty table of the schema
\* before the telefone column, or an empty table of the current schema.
Init ==
  /\ schema \in {"absent", "legacy", "current"}
  /\ rows = <<>>
  /\ seq = 0
  /\ clock = 1
  /\ pc = [p \in Procs |-> "idle"]
  /\ route = [p \in Procs |-> ""]
  /\ dados = [p \in Procs |-> NoDados]
  /\ loc = [p \in Procs |-> NoLoc]
  /\ conns = [p \in Procs |-> 0]
  /\ feito = NoFeito
  /\ reqs = 0

\* ------------------------------------------------------------------------
\* Steps of the handlers
\* ------------------------------------------------------------------------
\* Where each handler continues after init_db().
DepoisDeInit(r) ==
  CASE r = "index" -> "idle"
    [] r = "inscrever" -> "validar"
    [] r = "listar_inscritos" -> "select"
    [] r = "estatisticas" -> "count_total"
    [] r = "exportar_excel" -> "query"

\* Line 174: render_template("index.html")
RespIndex == [NoResp EXCEPT !.status = 200, !.tipo = "html"]

\* Line 173: index has no try, an exception of init_db becomes the
\* framework's 500 page.
RespIndex500 == [NoResp EXCEPT !.status = 500, !.tipo = "html"]

\* The handler of worker thread p returns response r with c connections
\* open; the thread is free again.
Responder(p, r, c, d, l) ==
  /\ feito' = [route |-> route[p], dados |-> d, loc |-> l, conns |-> c, resp |-> r]
  /\ pc' = [pc EXCEPT ![p] = "idle"]
  /\ route' = [route EXCEPT ![p] = ""]
  /\ dados' = [dados EXCEPT ![p] = NoDados]
  /\ loc' = [loc EXCEPT ![p] = NoLoc]
  /\ conns' = [conns EXCEPT ![p] = 0]

\* A free worker thread takes a request of route r and runs lines 36-57 of
\* init_db, and lines 62-63 when the telefone column exists.
Begin(p, r) ==
  /\ pc[p] = "idle"
  /\ reqs < MaxReqs
  /\ reqs' = reqs + 1
  /\ LET ct == CriarTabela(schema, rows) IN
     /\ schema' = ct[1]
     /\ rows' = ct[2]
     /\ IF ct[1] = "current" /\ r = "index"
          THEN /\ feito' = [NoFeito EXCEPT !.route = r, !.resp = RespIndex]
               /\ UNCHANGED <<pc, route, conns>>
          ELSE /\ pc' = [pc EXCEPT ![p] = IF ct[1] = "current" THEN DepoisDeInit(r) ELSE "migrate"]
               /\ route' = [route EXCEPT ![p] = r]
               /\ conns' = [conns EXCEPT ![p] = IF ct[1] = "current" THEN 0 ELSE 1]
               /\ feito' = feito
  /\ UNCHANGED <<seq, clock, dados, loc>>

\* Lines 58-63 of init_db.  ALTER TABLE raises OperationalError (duplicate
\* column name) when another thread has added the column meanwhile; the
\* exception leaves init_db without conn.close() and the handler answers 500.
Migrar(p) ==
  /\ pc[p] = "migrate"
  /\ IF schema = "legacy"
       THEN /\ schema' = "current"
            /\ rows' = MigrarTelefone(rows)
            /\ IF route[p] = "index"
                 THEN Responder(p, RespIndex, conns[p] - 1, dados[p], loc[p])
                 ELSE /\ conns' = [conns EXCEPT ![p] = @ - 1]
                      /\ pc' = [pc EXCEPT ![p] = DepoisDeInit(route[p])]
                      /\ UNCHANGED <<route, dados, loc, feito>>
       ELSE /\ UNCHANGED <<schema, rows>>
            /\ Responder(p, IF route[p] = "index" THEN RespIndex500 ELSE RespErro(500, ErrInterno),
                         conns[p], dados[p], loc[p])
  /\ UNCHANGED <<seq, clock, reqs>>

\* Lines 182-222 of inscrever: read the body, validate, open the connection.
ValidarReq(p, d) ==
  /\ pc[p] = "validar"
  /\ LET out == Validar(d) IN
     IF out.status # 0
       THEN Responder(p, RespErro(out.status, out.erro), conns[p], d, loc[p])
       ELSE /\ pc' = [pc EXCEPT ![p] = "check"]
            /\ dados' = [dados EXCEPT ![p] = d]
            /\ loc' = [loc EXCEPT ![p].rec = out.rec]
            /\ conns' = [conns EXCEPT ![p] = @ + 1]
            /\ UNCHANGED <<route, feito>>
  /\ UNCHANGED <<schema, rows, seq, clock, reqs>>

\* Lines 226-230: SELECT rg FROM inscricoes and the scan of the result.
ChecarDuplicidade(p) ==
  /\ pc[p] = "check"
  /\ IF JaCadastrado(rows, loc[p].rec.rg_digits)
       THEN Responder(p, RespErro(409, ErrDuplicado), conns[p] - 1, dados[p], loc[p])
       ELSE /\ pc' = [pc EXCEPT ![p] = "insert"]
            /\ UNCHANGED <<route, dados, loc, conns, feito>>
  /\ UNCHANGED <<schema, rows, seq, clock, reqs>>

\* Lines 232-248: INSERT, commit, lastrowid.  A violated UNIQUE raises
\* sqlite3.IntegrityError, caught at line 267 with the connection open.
Inserir(p) ==
  /\ pc[p] = "insert"
  /\ IF UniqueRgViolated(rows, loc[p].rec.rg)
       THEN /\ Responder(p, RespErro(500, ErrInterno), conns[p], dados[p], loc[p])
            /\ UNCHANGED <<rows, seq>>
       ELSE /\ rows' = Append(rows, Linha(loc[p].rec, seq + 1, clock))
            /\ seq' = seq + 1
            /\ loc' = [loc EXCEPT ![p].new_id = seq + 1]
            /\ pc' = [pc EXCEPT ![p] = "fetch"]
            /\ UNCHANGED <<route, dados, conns, feito>>
  /\ UNCHANGED <<schema, clock, reqs>>

\* Lines 254-265: the receipt of the fetched row, sent as
\* comprovante_inscricao_<new_id>.pdf.  Rendering the texts of a stored row
\* (gerar_pdf_comprovante, send_file) is taken not to raise.
RespostaComprovante_raise(registro, new_id) == RespErro(500, ErrInterno)

RespostaComprovante(registro, new_id) ==
  [NoResp EXCEPT !.status = 200, !.tipo = "pdf", !.registro = <<registro>>,
                 !.download_name = new_id]

\* Lines 251-265: SELECT the new row, close, render and send the receipt.
Comprovante(p) ==
  /\ pc[p] = "fetch"
  /\ LET row == CHOOSE r \in Range(rows) : r.id = loc[p].new_id IN
     Responder(p, RespostaComprovante(row, loc[p].new_id), conns[p] - 1, dados[p], loc[p])
  /\ UNCHANGED <<schema, rows, seq, clock, reqs>>

\* Lines 276-285 of listar_inscritos.
Listar(p) ==
  /\ pc[p] = "select"
  /\ Responder(p, [NoResp EXCEPT !.status = 200, !.tipo = "json_lista",
                                 !.lista = SelectInscritos(rows)],
               conns[p], dados[p], loc[p])
  /\ UNCHANGED <<schema, rows, seq, clock, reqs>>

\* Lines 296-299 of estatisticas: open the connection, first COUNT(*).
ContarTotal(p) ==
  /\ pc[p] = "count_total"
  /\ conns' = [conns EXCEPT ![p] = @ + 1]
  /\ loc' = [loc EXCEPT ![p].total = CountTotal(rows)]
  /\ pc' = [pc EXCEPT ![p] = "count_menores"]
  /\ UNCHANGED <<schema, rows, seq, clock, route, dados, feito, reqs>>

\* Lines 300-309 of estatisticas: second COUNT(*), the difference, close.
ContarMenores(p) ==
  /\ pc[p] = "count_menores"
  /\ LET total == loc[p].total
         menores == CountMenores(rows)
         maiores == total - menores
     IN Responder(p, [NoResp EXCEPT !.status = 200, !.tipo = "json_stats",
                        !.stats = [total_inscritos |-> total, menores_de_18 |-> menores,
                                   maiores_de_18 |-> maiores]],
                  conns[p] - 1, dados[p], loc[p])
  /\ UNCHANGED <<schema, rows, seq, clock, reqs>>

\* Lines 320-360 of exportar_excel.
Exportar(p) ==
  /\ pc[p] = "query"
  /\ Responder(p, [NoResp EXCEPT !.status = 200, !.tipo = "xlsx",
                                 !.lista = SelectExcel(rows)],
               conns[p], dados[p], loc[p])
  /\ UNCHANGED <<schema, rows, seq, clock, reqs>>

\* A second passes on the clock behind datetime('now').  Only the order and
\* the ties of data_inscricao are observed, so the seconds in which no row is
\* inserted are skipped.
Tick ==
  /\ \E i \in DOMAIN rows : rows[i].data_inscricao = clock
  /\ clock' = clock + 1
  /\ UNCHANGED <<schema, rows, seq, pc, route, dados, loc, conns, feito, reqs>>

Next ==
  \/ \E p \in Procs, r \in Routes : Begin(p, r)
  \/ \E p \in Procs : Migrar(p)
  \/ \E p \in Procs, d \in Requests : ValidarReq(p, d)
  \/ \E p \in Procs : ChecarDuplicidade(p)
  \/ \E p \in Procs : Inserir(p)
  \/ \E p \in Procs : Comprovante(p)
  \/ \E p \in Procs : Listar(p)
  \/ \E p \in Procs : ContarTotal(p)
  \/ \E p \in Procs : ContarMenores(p)
  \/ \E p \in Procs : Exportar(p)
  \/ Tick

Spec == Init /\ [][Next]_vars

\* ------------------------------------------------------------------------
\* Validation alone: one inscrever request on a migrated store, its body
\* drawn from AllRequests.
\* ------------------------------------------------------------------------
InitValidar ==
  /\ schema = "current"
  /\ rows = <<>>
  /\ seq = 0
  /\ clock = 1
  /\ pc = [p \in Procs |-> IF p = 1 THEN "validar" ELSE "idle"]
  /\ route = [p \in Procs |-> IF p = 1 THEN "inscrever" ELSE ""]
  /\ dados = [p \in Procs |-> NoDados]
  /\ loc = [p \in Procs |-> NoLoc]
  /\ conns = [p \in Procs |-> 0]
  /\ feito = NoFeito
  /\ reqs = 1

NextValidar == pc[1] = "validar" /\ \E d \in AllRequests : ValidarReq(1, d)

SpecValidar == InitValidar /\ [][NextValidar]_vars

\* ------------------------------------------------------------------------
\* Properties
\* ------------------------------------------------------------------------
Inscreveu == feito.route = "inscrever"
PassouValidacao == feito.loc.rec # NoRec

\* Worker thread p returns its response in this step.
Responde(p) == pc[p] # "idle" /\ pc'[p] = "idle"

\* C1: no two persisted registrations have identity documents (rg) with the
\* same digit-normalized form, whatever the interleaving of the concurrent
\* inscrever requests.
C1_RgUnicoPorDigitos ==
  \A i, j \in DOMAIN rows :
    i # j => only_digits(rows[i].rg) # only_digits(rows[j].rg)

\* Two requests with digit-equal, differently written documents raced past
\* the duplicate check: one is persisted, the other was stopped by the
\* INSERT itself.
C1_Witness ==
  /\ Inscreveu /\ PassouValidacao
  /\ feito.loc.new_id = 0
  /\ feito.resp.status = 500
  /\ \E i \in DOMAIN rows :
       /\ only_digits(rows[i].rg) = feito.loc.rec.rg_digits
       /\ rows[i].rg # feito.dados.rg.v

\* C2: a register request that passed validation and was not persisted
\* (its document's digits are already registered) completes with the
\* DuplicateIdentity outcome, HTTP 409 'RG ja cadastrado', never with an
\* internal-error outcome.
C2_DuplicadoResponde409 ==
  (Inscreveu /\ PassouValidacao /\ feito.resp.tipo # "pdf")
    => (feito.resp.status = 409 /\ feito.resp.erro = ErrDuplicado)

\* C3: a register call appends exactly one record when it returns the
\* receipt and leaves the persisted registrations unchanged for every other
\* outcome; a receipt is generated only for the record the call persisted.
C3_Passo ==
  /\ rows' # rows =>
       /\ Len(rows') = Len(rows) + 1
       /\ SubSeq(rows', 1, Len(rows)) = rows
       /\ \E p \in Procs :
            /\ route[p] = "inscrever" /\ pc[p] = "insert"
            /\ loc[p].new_id = 0
            /\ loc'[p].new_id = rows'[Len(rows')].id
            /\ \A q \in Procs \ {p} : loc'[q] = loc[q]
  /\ \A p \in Procs :
       /\ (loc[p].new_id # 0 /\ ~Responde(p)) => loc'[p].new_id = loc[p].new_id
       /\ (route[p] = "inscrever" /\ Responde(p)) =>
            /\ feito'.route = "inscrever"
            /\ feito'.loc = loc[p]
            /\ IF feito'.resp.tipo = "pdf"
                 THEN /\ loc[p].new_id # 0
                      /\ \E i \in DOMAIN rows' :
                           /\ rows'[i].id = loc[p].new_id
                           /\ feito'.resp.registro = <<rows'[i]>>
                 ELSE /\ loc[p].new_id = 0
                      /\ rows' = rows
                      /\ feito'.resp.registro = <<>>

C4_Responsavel ==
  \A i \in DOMAIN rows :
    LET r == rows[i] IN
    /\ r.eh_menor \in {0, 1}
    /\ (r.eh_menor = 1) <=> (r.idade < 18)
    /\ r.eh_menor = 1 =>
         /\ r.nome_responsavel.k = "str" /\ r.nome_responsavel.v # <<>>
         /\ r.rg_responsavel.k = "str"
         /\ Len(only_digits(r.rg_responsavel.v)) \in 7..12
    /\ r.eh_menor = 0 =>
         /\ r.nome_responsavel = JNull
         /\ r.rg_responsavel = JNull

\* An adult whose request carried guardian values has been persisted, next
\* to a minor.
C4_Witness ==
  /\ Inscreveu /\ feito.resp.tipo = "pdf"
  /\ feito.dados.nome_responsavel # JNull /\ feito.dados.rg_responsavel # JNull
  /\ feito.resp.registro[1].eh_menor = 0
  /\ \E i \in DOMAIN rows : rows[i].eh_menor = 1

\* C7: every statistics response has maiores = total - menores >= 0,
\* menores <= total, and equals the counts of one single state of the store
\* (a prefix of the rows, the store being append-only).
C7_EstatisticasDeUmEstado ==
  feito.resp.tipo = "json_stats" =>
    LET st == feito.resp.stats IN
    /\ st.maiores_de_18 = st.total_inscritos - st.menores_de_18
    /\ st.maiores_de_18 >= 0
    /\ st.menores_de_18 <= st.total_inscritos
    /\ \E k \in 0..Len(rows) :
         /\ st.total_inscritos = k
         /\ st.menores_de_18 = CountMenores(SubSeq(rows, 1, k))

\* C8: a persisted registration is never changed nor removed; ids are
\* unique and strictly increasing in insertion order; a step of index,
\* listar_inscritos, estatisticas or exportar_excel (their init_db
\* included) leaves the rows as they were.
Moveu(p) ==
  <<pc[p], route[p], loc[p], conns[p], dados[p]>>
    # <<pc'[p], route'[p], loc'[p], conns'[p], dados'[p]>>

SomenteLeitura == Routes \ {"inscrever"}

C8_Passo ==
  /\ Len(rows') >= Len(rows)
  /\ \A i \in DOMAIN rows : rows'[i] = rows[i]
  /\ \A i, j \in DOMAIN rows' : i < j => rows'[i].id < rows'[j].id
  /\ \A p \in Procs :
       (Moveu(p) /\ (route[p] \in SomenteLeitura \/ route'[p] \in SomenteLeitura))
         => rows' = rows
  /\ (feito' # feito /\ feito'.route \in SomenteLeitura) => rows' = rows

C9_ConexaoLiberada == feito.conns = 0

\* C10: the listing returns every persisted registration exactly once,
\* ordered by data_inscricao descending, ties by id descending; the export
\* has the same order.
ListaDesc(l) ==
  \A k \in 1..(Len(l) - 1) :
    \/ l[k].data_inscricao > l[k + 1].data_inscricao
    \/ l[k].data_inscricao = l[k + 1].data_inscricao /\ l[k].id > l[k + 1].id

ExcelDesc(l) ==
  \A k \in 1..(Len(l) - 1) :
    \/ l[k].DataDeInscricao > l[k + 1].DataDeInscricao
    \/ l[k].DataDeInscricao = l[k + 1].DataDeInscricao /\ l[k].ID > l[k + 1].ID

C10_Passo ==
  \A p \in Procs :
    /\ (pc[p] = "select" /\ Responde(p)) =>
         LET l == feito'.resp.lista IN
         /\ feito'.resp.tipo = "json_lista"
         /\ Len(l) = Len(rows)
         /\ \A i \in DOMAIN rows : Cardinality({k \in DOMAIN l : l[k] = rows[i]}) = 1
         /\ ListaDesc(l)
    /\ (pc[p] = "query" /\ Responde(p)) =>
         LET l == feito'.resp.lista IN
         /\ feito'.resp.tipo = "xlsx"
         /\ Len(l) = Len(rows)
         /\ \A i \in DOMAIN rows :
              Cardinality({k \in DOMAIN l : l[k].ID = rows[i].id}) = 1
         /\ ExcelDesc(l)

C10_ListagemOrdenada == [][C10_Passo]_vars

\* Two registrations of the same second were listed, the later id first.
C10_Witness ==
  /\ feito.resp.tipo = "json_lista"
  /\ Len(feito.resp.lista) = 2
  /\ feito.resp.lista[1].data_inscricao = feito.resp.lista[2].data_inscricao
  /\ feito.resp.lista[1].id > feito.resp.lista[2].id

\* ------------------------------------------------------------------------
\* Properties of validation (SpecValidar)
\* ------------------------------------------------------------------------
EhTexto(x) == x.k \in {"str", "null"}
TextoDe(x) == IF x.k = "str" THEN Strip(x.v) ELSE <<>>

\* The age is an integer, or a text that reads as one, from 5 to 100.
IdadeInteira5a100(x) ==
  \/ x.k = "int" /\ 5 <= x.n /\ x.n <= 100
  \/ x.k = "str" /\ ~IntRaises(x) /\ 5 <= IntOf(x) /\ IntOf(x) <= 100

\* The reason of the first rule, in the order name, age, phone, identity
\* document, guardian name, guardian document, that the body violates; ""
\* when it violates none.
PrimeiraViolacao(d) ==
  IF TextoDe(d.nome_completo) = <<>> THEN ErrNome
  ELSE IF ~IdadeInteira5a100(d.idade) THEN ErrIdade
  ELSE IF Len(only_digits(TextoDe(d.telefone))) \notin {10, 11} THEN ErrTelefone
  ELSE IF Len(only_digits(TextoDe(d.rg))) \notin 7..12 THEN ErrRg
  ELSE IF IntOf(d.idade) < 18 /\ TextoDe(d.nome_responsavel) = <<>> THEN ErrNomeResp
  ELSE IF IntOf(d.idade) < 18 /\ Len(only_digits(TextoDe(d.rg_responsavel))) \notin 7..12
    THEN ErrRgResp
  ELSE ""

\* Every text field is a JSON string or absent and the age is not fractional.
BemTipado(d) ==
  /\ d.obj
  /\ EhTexto(d.nome_completo) /\ EhTexto(d.telefone) /\ EhTexto(d.rg)
  /\ EhTexto(d.nome_responsavel) /\ EhTexto(d.rg_responsavel)
  /\ d.idade.k # "float"

\* The request of thread 1 has been validated: it was accepted and goes on
\* to the duplicate check, or it has been answered.
Validado == pc[1] = "check" \/ feito.route = "inscrever"
Aceitou == pc[1] = "check"
Lido == IF pc[1] = "check" THEN dados[1] ELSE feito.dados

\* C5: validation answers with the reason of the first violated rule in the
\* order name, age, phone, identity document, guardian name, guardian
\* document, and no body, however malformed, ends in an internal error.
C5_PrimeiraRegraVence ==
  Validado =>
    /\ ~Aceitou => feito.resp.status # 500
    /\ BemTipado(Lido) =>
         IF PrimeiraViolacao(Lido) = ""
           THEN Aceitou
           ELSE /\ ~Aceitou
                /\ feito.resp.status = 400
                /\ feito.resp.erro = PrimeiraViolacao(Lido)

\* Every field but the age is valid, for a minor as well as for an adult.
OutrosValidos(d) ==
  /\ d.obj
  /\ d.nome_completo.k = "str" /\ TextoDe(d.nome_completo) # <<>>
  /\ d.telefone.k = "str" /\ Len(only_digits(d.telefone.v)) \in {10, 11}
  /\ d.rg.k = "str" /\ Len(only_digits(d.rg.v)) \in 7..12
  /\ d.nome_responsavel.k = "str" /\ TextoDe(d.nome_responsavel) # <<>>
  /\ d.rg_responsavel.k = "str" /\ Len(only_digits(d.rg_responsavel.v)) \in 7..12

\* C6: for an otherwise-valid body, validation accepts exactly when the age
\* is an integer from 5 to 100 and answers 'Idade invalida' otherwise.
C6_IdadeDe5a100 ==
  (Validado /\ OutrosValidos(Lido)) =>
    IF IdadeInteira5a100(Lido.idade)
      THEN Aceitou
      ELSE /\ ~Aceitou
           /\ feito.resp.status = 400
           /\ feito.resp.erro = ErrIdade
====
